---- MODULE Spec2Model ----
(***************************************************************************)
(* Model of the face/emotion detection pipeline of emotion_recog:          *)
(*   src/emotion_detector.py  class EmotionDetector                        *)
(*   src/face.py              analizar_emocion_frame                       *)
(* The detector object's fields are the state; every public method is one  *)
(* action.  Calls into OpenCV / torch / mediapipe / DeepFace are the       *)
(* environment: what they return (or that they raise) is chosen with \E.   *)
(* Confidences are in hundredths (0.5 = 50), YOLO coordinates in half      *)
(* pixels and MediaPipe coordinates in hundredths of the frame, so that    *)
(* the int() truncations of the code are computed and not assumed.         *)
(***************************************************************************)
EXTENDS Integers, Sequences, FiniteSets, TLC

VARIABLES
    alive,                \* an EmotionDetector object exists
    model_type,           \* self.model_type
    detector,             \* self.detector: which object the attribute holds
    mediapipe_available,  \* self.mediapipe_available
    call,                 \* the operation that ran last, as its caller saw it:
                          \*   op       the operation
                          \*   arg      its string argument (a backend name), or ""
                          \*   ret      how it ended: "True", "False", "raised", "frame", ...
                          \*   given    the caller's frame as it was passed
                          \*   caller   the caller's frame object after the call
                          \*   out      the frame the call returned
                          \*   emotion  <<label, confidence>> returned by get_emotion
                          \*   located  the boxes the locator returned
                          \*   used     the detection routine that ran, or "none"
                          \*   ev       what the operation did, in order
    pre,                  \* detector fields before the last operation
    switched,             \* the last change_model call: requested kind, result, backend after
    emo,                  \* the crop get_emotion was last called on, what it returned
                          \* for it then (after), what it had returned for the same
                          \* crop before the switches made since (before), and
                          \* whether change_model has been called since (sw)
    ui,                   \* the dashboard (dashboard.py, class EmotionDashboard):
                          \*   up        "no", "running", or "aborted" after an exception
                          \*             nothing caught
                          \*   current_model, haar_btn, yolo_btn, mediapipe_btn
                          \*             the backend the window presents: the attribute
                          \*             and the checked state of the three buttons
                          \*   warmed    a warm-up inference has been run on the object
                          \*             in detector.detector since it was loaded
                          \*   timer     the frame timer is active
                          \*   is_webcam_active, cap   the capture source; cap is
                          \*             "none", "camera", "video", or a capture
                          \*             object that did not open
                          \*   pos       CAP_PROP_POS_FRAMES of a video capture
                          \*   unreleased  while a handler runs: it opened a capture
                          \*             over one that was still open
                          \*   video_paused, total_frames, current_frame
                          \*   slider, play_btn, controls   the progress slider's
                          \*             value, the play button's checked state, and
                          \*             whether the video controls are visible
                          \*   is_recording, video_writer, record_timer
                          \*   modal     the modal dialogs that are open, oldest first,
                          \*             each with the handler waiting for it
                          \*   last      what the last event handler did
    geo                   \* the crop geometry of one box, computed on its own:
                          \*   b, w, h  a located box and the frame's width and height
                          \*   stage    "input", "clipped", "reclipped" or "looped"
                          \*   crop     the box expanded by the margin and clipped
                          \*   again    crop clipped once more
                          \*   size     the size of the array cut out of the frame
                          \*   ev, marks  what the loop body did for the box

\* the variables of the detector object and of its last call
det_vars == <<alive, model_type, detector, mediapipe_available, call, pre, switched>>

vars == <<alive, model_type, detector, mediapipe_available, call, pre, switched, emo, ui, geo>>

----------------------------------------------------------------------------
(* Bounds and program constants *)

MaxFaces == 2

margin == 20

\* names accepted by change_model
Kinds == {"haar", "yolo", "mediapipe", "deepface"}

\* names a caller may pass: the accepted ones, the spec's name of the DNN
\* backend, and a plainly unknown one
Names == Kinds \cup {"dnn_person", "unknown"}

emotions == <<"Feliz", "Triste", "Enojado", "Sorprendido", "Neutral">>

----------------------------------------------------------------------------
(* Arithmetic helpers: Python's max, min, int() and slice lengths *)

Max(a, b) == IF a >= b THEN a ELSE b

Min(a, b) == IF a <= b THEN a ELSE b

\* int(n / d) for d > 0: truncation toward zero
Trunc(n, d) == IF n >= 0 THEN n \div d ELSE -((-n) \div d)

\* a slice bound of a sequence of length n, as Python normalises it
SliceBound(i, n) == IF i < 0 THEN Max(i + n, 0) ELSE Min(i, n)

\* len(seq[start:stop]) for a sequence of length n
SliceLen(start, stop, n) == Max(SliceBound(stop, n) - SliceBound(start, n), 0)

----------------------------------------------------------------------------
(* Frames.  A frame is an array object: obj is its identity, img the       *)
(* picture it was made from, marks what has been drawn on it.              *)

NoneFrame == [obj |-> "None", img |-> 0, h |-> 0, w |-> 0, marks |-> <<>>]

NoFrame == [obj |-> "nothing", img |-> 0, h |-> 0, w |-> 0, marks |-> <<>>]

Frames ==
    { NoneFrame,
      [obj |-> "caller", img |-> 1, h |-> 0, w |-> 64, marks |-> <<>>],
      [obj |-> "caller", img |-> 2, h |-> 48, w |-> 64, marks |-> <<>>] }

\* frame.size
Size(f) == f.h * f.w * 3

\* the guard with only its first test
IsEmptyFrame_NoneOnly(f) == f.obj = "None"

\* frame is None or frame.size == 0
IsEmptyFrame(f) == f.obj = "None" \/ Size(f) = 0

\* a fresh array of the same shape that does not take the pixels over
Copy_Blank(f) == [f EXCEPT !.obj = "copy", !.img = 0]

\* frame.copy()
Copy(f) == [f EXCEPT !.obj = "copy"]

----------------------------------------------------------------------------
(* Construction of the locator *)

\* What loading a backend can do.  yolo: the weights load and the warm-up
\* runs, or the weights file is missing, or loading / warm-up raises.
\* mp: mediapipe imports and builds, or the import raises ImportError, or
\* something else is raised (import raising another error type, or the
\* FaceDetection constructor failing to load its model).
YoloOutcomes == {"ok", "no_weights", "warmup_fails"}

MpOutcomes == {"ok", "import_error", "other_error"}

\* the loads a construction for backend `name` performs, and their outcomes
LoadEnvs(name) ==
    IF name = "yolo" THEN [yolo : YoloOutcomes, mp : {"ok"}]
    ELSE IF name = "mediapipe" THEN [yolo : {"ok"}, mp : MpOutcomes]
    ELSE [yolo : {"ok"}, mp : {"ok"}]

\* An entry of the event log: what happened, and for which face (0: none)
Ev(n, i) == [e |-> n, i |-> i]

\* The fields of the detector object
Fields(mt, det, avail) ==
    [model_type |-> mt, detector |-> det, mediapipe_available |-> avail]

\* init_detectors with self.model_type = mt; e says what the loads do.
\* Result: the fields afterwards, whether the call raised, and its events.
init_detectors(mt, det, avail, e) ==
    IF mt = "haar" THEN
        [f |-> Fields("haar", "haar", avail), raised |-> FALSE, ev |-> <<>>]
    ELSE IF mt = "yolo" THEN
        IF e.yolo = "ok" THEN
            [f |-> Fields("yolo", "yolo5", avail), raised |-> FALSE,
             ev |-> <<Ev("load_yolo", 0), Ev("warmup", 0)>>]
        ELSE
            \* except Exception: print, fall back to Haar
            [f |-> Fields("haar", "haar", avail), raised |-> FALSE,
             ev |-> (IF e.yolo = "warmup_fails" THEN <<Ev("load_yolo", 0)>> ELSE <<>>)
                    \o <<Ev("load_failed", 0), Ev("warning", 0)>>]
    ELSE IF mt = "mediapipe" THEN
        IF e.mp = "ok" THEN
            [f |-> Fields("mediapipe", "mp", TRUE), raised |-> FALSE, ev |-> <<>>]
        ELSE IF e.mp = "import_error" THEN
            \* except ImportError: print, fall back to Haar
            [f |-> Fields("haar", "haar", avail), raised |-> FALSE,
             ev |-> <<Ev("load_failed", 0), Ev("warning", 0)>>]
        ELSE
            \* any other exception leaves the try block uncaught
            [f |-> Fields("mediapipe", det, avail), raised |-> TRUE,
             ev |-> <<Ev("load_failed", 0)>>]
    ELSE
        \* "deepface": pass; any other name: no branch is taken
        [f |-> Fields(mt, det, avail), raised |-> FALSE, ev |-> <<>>]

\* what a call sees of init_detectors: an exception that leaves it is logged
InitResult(r) ==
    [f |-> r.f, ret |-> IF r.raised THEN "raised" ELSE "True",
     ev |-> r.ev \o (IF r.raised THEN <<Ev("init_detectors_raised", 0)>> ELSE <<>>)]

\* change_model without the membership test
change_model_NoCheck(name, mt, det, avail, e) ==
    InitResult(init_detectors(name, det, avail, e))

\* change_model that sets model_type and does not rebuild the locator
change_model_NoInit(name, mt, det, avail, e) ==
    IF name \in Kinds THEN [f |-> Fields(name, det, avail), ret |-> "True", ev |-> <<>>]
    ELSE [f |-> Fields(mt, det, avail), ret |-> "False", ev |-> <<>>]

\* change_model(name): the fields afterwards and the call's outcome
change_model(name, mt, det, avail, e) ==
    IF name \in Kinds THEN InitResult(init_detectors(name, det, avail, e))
    ELSE [f |-> Fields(mt, det, avail), ret |-> "False", ev |-> <<>>]

----------------------------------------------------------------------------
(* The classifier *)

\* What the calls made for one face do: whether the inference raises, the
\* mean grey level of the crop, DeepFace's dominant emotion, the index
\* np.random.choice draws, and whether a drawing call raises.
EnvOk == [infer |-> "ok", mean |-> 131, dominant |-> "happy", rnd |-> 1, draw |-> "ok"]

EnvInferRaises == [infer |-> "raise", mean |-> 0, dominant |-> "none", rnd |-> 3, draw |-> "ok"]

EnvDrawRaises == [infer |-> "ok", mean |-> 101, dominant |-> "neutral", rnd |-> 1, draw |-> "raise"]

FaceEnvs == {EnvOk, EnvInferRaises, EnvDrawRaises}

\* every classifier environment, for calls of get_emotion on its own
ClassifyEnvs ==
    {[EnvOk EXCEPT !.mean = m[1], !.dominant = m[2]] :
        m \in {<<100, "happy">>, <<101, "neutral">>, <<130, "sad">>, <<131, "happy">>}}
      \cup {[EnvInferRaises EXCEPT !.rnd = i] : i \in 1..Len(emotions)}

\* get_emotion(face_img) with self.model_type = mt: <<label, confidence>>
get_emotion(mt, e) ==
    IF mt = "deepface" THEN
        IF e.infer = "raise" THEN <<"Neutral", 50>> ELSE <<e.dominant, 100>>
    ELSE
        IF e.infer = "raise" THEN <<emotions[e.rnd], 50>>
        ELSE IF e.mean > 130 THEN <<"Feliz", 70>>
        ELSE IF e.mean > 100 THEN <<"Neutral", 70>>
        ELSE <<"Triste", 70>>

----------------------------------------------------------------------------
(* The locators.  A detection is what the library reports (raw) together   *)
(* with the environment of the face it belongs to.                         *)

\* raw detections and one environment each; the first raw one with every environment
Cases(raws) ==
    {[raw |-> raws[1], env |-> e] : e \in FaceEnvs}
        \cup {[raw |-> raws[i], env |-> EnvOk] : i \in 2..Len(raws)}

\* detectMultiScale: (x, y, w, h), inside the frame
HaarCases == Cases(<< <<10, 8, 30, 30>> >>)

\* results.xyxy[0]: (x1, y1, x2, y2) in half pixels, confidence, class
YoloCases == Cases(<< <<21, 17, 81, 77, 90, 0>>, <<-9, 3, 61, 99, 40, 0>>,
                      <<21, 17, 81, 77, 90, 1>> >>)

\* relative_bounding_box: (xmin, ymin, width, height) in hundredths of the frame
MpCases == Cases(<< <<10, 10, 50, 50>>, <<-10, -20, 40, 50>>, <<150, 10, 30, 30>> >>)

\* DeepFace region: (x, y, w, h)
DeepCases == Cases(<< <<10, 8, 30, 30>> >>)

\* every list of at most MaxFaces detections
Lists(S) == UNION {[1..n -> S] : n \in 0..MaxFaces}

NoInput == [p1 |-> <<>>, p2 |-> <<>>, dets |-> <<>>, form |-> "list"]

\* the detection routine process_frame ends up running
LocatorPath(mt, avail) ==
    IF mt = "haar" THEN "haar"
    ELSE IF mt = "yolo" THEN "yolo"
    ELSE IF mt = "deepface" THEN "deepface"
    ELSE IF avail THEN "mediapipe" ELSE "haar"

\* what the libraries may answer to the routine that runs: the two Haar
\* passes (the second is only asked when the first found nothing), or the
\* detections of the network, or DeepFace's analysis (a list, a single
\* dict, or an exception)
HaarInputs ==
    {[NoInput EXCEPT !.p1 = a] : a \in Lists(HaarCases) \ {<<>>}}
        \cup {[NoInput EXCEPT !.p2 = b] : b \in Lists(HaarCases)}

YoloInputs == {[NoInput EXCEPT !.dets = d] : d \in Lists(YoloCases)}

MpInputs == {[NoInput EXCEPT !.dets = d] : d \in Lists(MpCases)}

DeepInputs ==
    {[NoInput EXCEPT !.dets = d] : d \in Lists(DeepCases)}
        \cup {[NoInput EXCEPT !.dets = d, !.form = "dict"] :
                 d \in {x \in Lists(DeepCases) : Len(x) = 1}}
        \cup {[NoInput EXCEPT !.form = "raise"]}

HaarLists == Lists(HaarCases)

\* nothing is asked of any library for a frame that is None or empty
LocInputs(path, frame) ==
    IF IsEmptyFrame(frame) THEN {NoInput}
    ELSE IF path = "haar" THEN HaarInputs
    ELSE IF path = "yolo" THEN YoloInputs
    ELSE IF path = "mediapipe" THEN MpInputs
    ELSE DeepInputs

Face(box, e) == [box |-> box, env |-> e]

LocRaised(path) == [raised |-> TRUE, faces |-> <<>>, used |-> path, ev |-> <<>>]

\* detect_faces_haar that runs the permissive pass whatever the first found
detect_faces_haar_AlwaysRetry(det, inp) ==
    IF det # "haar" THEN LocRaised("haar")
    ELSE
        [raised |-> FALSE,
         faces |-> [i \in 1..Len(inp.p2) |->
                      LET r == inp.p2[i].raw IN
                      Face(<<r[1], r[2], r[1] + r[3], r[2] + r[4]>>, inp.p2[i].env)],
         used |-> "haar",
         ev |-> <<Ev("haar_pass1", Len(inp.p1)), Ev("haar_pass2", Len(inp.p2))>>]

\* detect_faces_haar: needs a cascade in self.detector.  The events carry
\* the number of faces each pass found.
detect_faces_haar(det, inp) ==
    IF det # "haar" THEN LocRaised("haar")
    ELSE
        LET faces == IF Len(inp.p1) = 0 THEN inp.p2 ELSE inp.p1 IN
        [raised |-> FALSE,
         faces |-> [i \in 1..Len(faces) |->
                      LET r == faces[i].raw IN
                      Face(<<r[1], r[2], r[1] + r[3], r[2] + r[4]>>, faces[i].env)],
         used |-> "haar",
         ev |-> <<Ev("haar_pass1", Len(inp.p1))>>
                  \o (IF Len(inp.p1) = 0 THEN <<Ev("haar_pass2", Len(inp.p2))>> ELSE <<>>)]

IsPerson(d) == d.raw[6] = 0

\* detect_faces_yolo: needs the torch.hub model in self.detector
detect_faces_yolo(det, inp) ==
    IF det # "yolo5" THEN LocRaised("yolo")
    ELSE
        LET kept == SelectSeq(inp.dets, IsPerson) IN
        [raised |-> FALSE,
         faces |-> [i \in 1..Len(kept) |->
                      LET r == kept[i].raw IN
                      Face(<<Trunc(r[1], 2), Trunc(r[2], 2), Trunc(r[3], 2), Trunc(r[4], 2)>>,
                           kept[i].env)],
         used |-> "yolo",
         ev |-> <<Ev("yolo_inference", 0)>>]

\* detect_faces_mediapipe: Haar when mediapipe is not available, else
\* needs the FaceDetection object in self.detector
detect_faces_mediapipe(det, avail, frame, inp) ==
    IF ~avail THEN detect_faces_haar(det, inp)
    ELSE IF det # "mp" THEN LocRaised("mediapipe")
    ELSE
        [raised |-> FALSE,
         faces |-> [i \in 1..Len(inp.dets) |->
                      LET r == inp.dets[i].raw IN
                      Face(<<Trunc(r[1] * frame.w, 100), Trunc(r[2] * frame.h, 100),
                             Trunc((r[1] + r[3]) * frame.w, 100),
                             Trunc((r[2] + r[4]) * frame.h, 100)>>,
                           inp.dets[i].env)],
         used |-> "mediapipe",
         ev |-> <<Ev("mediapipe_process", 0)>>]

\* detect_faces_deepface: never raises; analysis is "none" after an exception
detect_faces_deepface(inp) ==
    IF inp.form = "raise" THEN
        [raised |-> FALSE, faces |-> <<>>, used |-> "deepface",
         ev |-> <<Ev("deepface_analyze", 0)>>, analysis |-> "none"]
    ELSE
        [raised |-> FALSE,
         faces |-> [i \in 1..Len(inp.dets) |->
                      LET r == inp.dets[i].raw IN
                      Face(<<r[1], r[2], r[1] + r[3], r[2] + r[4]>>, inp.dets[i].env)],
         used |-> "deepface",
         ev |-> <<Ev("deepface_analyze", 0)>>,
         analysis |-> IF inp.form = "list" /\ Len(inp.dets) = 0 THEN "none" ELSE inp.form]

\* the dispatch at the head of process_frame
Locate(mt, det, avail, frame, inp) ==
    IF mt = "haar" THEN detect_faces_haar(det, inp) @@ [analysis |-> "none"]
    ELSE IF mt = "yolo" THEN detect_faces_yolo(det, inp) @@ [analysis |-> "none"]
    ELSE IF mt = "deepface" THEN detect_faces_deepface(inp)
    ELSE detect_faces_mediapipe(det, avail, frame, inp) @@ [analysis |-> "none"]

----------------------------------------------------------------------------
(* process_frame *)

Mark(k, b, color, thickness, label, conf) ==
    [k |-> k, x1 |-> b[1], y1 |-> b[2], x2 |-> b[3], y2 |-> b[4],
     color |-> color, thickness |-> thickness, label |-> label, conf |-> conf]

\* the box grown by m on every side: y1 - margin, y2 + margin, ...
Expand(b, m) == <<b[1] - m, b[2] - m, b[3] + m, b[4] + m>>

\* clipping that grows the box by the margin each time it is applied
Clamp_WithMargin(b, w, h) ==
    <<Max(0, b[1] - margin), Max(0, b[2] - margin),
      Min(w, b[3] + margin), Min(h, b[4] + margin)>>

\* the clipping of lines 179-182: max(0, .) on the near edges and
\* min(frame.shape[.], .) on the far edges
Clamp(b, w, h) == <<Max(0, b[1]), Max(0, b[2]), Min(w, b[3]), Min(h, b[4])>>

\* <<x1_m, y1_m, x2_m, y2_m>>: the box expanded by the margin and clipped
CropBox(b, frame) == Clamp(Expand(b, margin), frame.w, frame.h)

\* frame[y1_m:y2_m, x1_m:x2_m].size for the box expanded by the margin
CropSize(b, frame) ==
    LET c == CropBox(b, frame)
    IN  SliceLen(c[2], c[4], frame.h) * SliceLen(c[1], c[3], frame.w) * 3

\* the emotion of one face: DeepFace's analysis of the whole frame when
\* there is one, else get_emotion on the crop
FaceEmotion(mt, analysis, e) ==
    IF mt = "deepface" /\ analysis # "none" THEN <<e.dominant, 100>>
    ELSE get_emotion(mt, e)

BoxColor(mt) == IF mt = "deepface" THEN "red" ELSE "green"

Thickness(mt, b) ==
    IF mt = "deepface" THEN Max(2, Trunc(b[3] - b[1], 50))
    ELSE Max(1, Trunc(b[3] - b[1], 100))

\* font_scale in 200ths: (x2 - x1) / 200 kept within [0.7, 1.2] for
\* deepface and within [0.5, 1.0] otherwise
FontScale(mt, b) ==
    IF mt = "deepface" THEN Min(Max(140, b[3] - b[1]), 240)
    ELSE Min(Max(100, b[3] - b[1]), 200)

\* cv2.getTextSize with FONT_HERSHEY_SIMPLEX (cap line 12 and base line 9
\* at scale 1): text_height = round(21 * scale + (thickness + 1) / 2) with
\* an integer division, baseline = round(9 * scale + thickness / 2)
TextHeight(fs, thickness) == (21 * fs + 100) \div 200 + (thickness + 1) \div 2

TextBaseline(fs, thickness) == (18 * fs + 200 * thickness + 200) \div 400

\* where the label of a box goes: top is the upper edge of its filled
\* background y1 - text_height - baseline - 5, base the text's baseline
\* y1 - baseline - 5
LabelPlace(mt, b) ==
    LET fs == FontScale(mt, b)
        t == Thickness(mt, b)
    IN  [top |-> b[2] - TextHeight(fs, t) - TextBaseline(fs, t) - 5,
         base |-> b[2] - TextBaseline(fs, t) - 5]

\* One iteration of the loop over the located faces.  acc: the marks drawn
\* so far, the events, and whether an exception is on its way out.
FaceStep(mt, analysis, frame, face, i, acc) ==
    IF CropSize(face.box, frame) = 0 THEN
        [acc EXCEPT !.ev = @ \o <<Ev("skip", i)>>]
    ELSE
        LET em == FaceEmotion(mt, analysis, face.env)
            how == IF mt = "deepface" /\ analysis # "none" THEN "from_analysis"
                   ELSE IF face.env.infer = "raise" THEN "classify_fallback"
                   ELSE "classify"
        IN  IF face.env.draw = "raise" THEN
                [acc EXCEPT !.ev = @ \o <<Ev(how, i), Ev("draw_raised", i)>>,
                            !.raised = TRUE]
            ELSE
                [acc EXCEPT
                   !.ev = @ \o <<Ev(how, i), Ev("draw", i)>>,
                   !.marks = @ \o <<Mark("rect", face.box, BoxColor(mt),
                                         Thickness(mt, face.box), "", 0),
                                    Mark("label", face.box, BoxColor(mt),
                                         Thickness(mt, face.box), em[1], em[2])
                                       @@ LabelPlace(mt, face.box)>>]

RECURSIVE FaceLoop(_, _, _, _, _, _)
\* for idx, box in enumerate(faces): nothing in the loop catches an exception
FaceLoop(mt, analysis, frame, faces, i, acc) ==
    IF i > Len(faces) \/ acc.raised THEN acc
    ELSE FaceLoop(mt, analysis, frame, faces, i + 1,
                  FaceStep(mt, analysis, frame, faces[i], i, acc))

Boxes(faces) == [i \in 1..Len(faces) |-> faces[i].box]

\* drawing on the caller's array itself
OutputFrame_Alias(frame) == frame

\* the frame object process_frame draws on
OutputFrame(frame) == Copy(frame)

\* process_frame(frame): how it ends, what it returns, what the caller's
\* frame object holds afterwards
process_frame(mt, det, avail, frame, inp) ==
    IF IsEmptyFrame(frame) THEN
        [ret |-> "frame", out |-> frame, caller |-> frame, located |-> <<>>,
         used |-> "none", ev |-> <<>>]
    ELSE
        LET output_frame == OutputFrame(frame)
            loc == Locate(mt, det, avail, frame, inp)
        IN  IF loc.raised THEN
                [ret |-> "raised", out |-> NoFrame, caller |-> frame,
                 located |-> <<>>, used |-> loc.used,
                 ev |-> loc.ev \o <<Ev("locator_raised", 0)>>]
            ELSE
                LET r == FaceLoop(mt, loc.analysis, frame, loc.faces, 1,
                                  [marks |-> <<>>, ev |-> loc.ev, raised |-> FALSE])
                    drawn == [output_frame EXCEPT !.marks = @ \o r.marks]
                    caller == IF output_frame.obj = frame.obj THEN drawn ELSE frame
                IN  [ret |-> IF r.raised THEN "raised" ELSE "frame",
                     out |-> IF r.raised THEN NoFrame ELSE drawn,
                     caller |-> caller, located |-> Boxes(loc.faces),
                     used |-> loc.used, ev |-> r.ev]

----------------------------------------------------------------------------
(* face.py: analizar_emocion_frame *)

\* One face: the rectangle is drawn on the caller's frame, then
\* DeepFace.analyze runs on the crop (nothing catches its exception), then
\* the text is drawn.
AnalizarStep(face, i, acc) ==
    LET b == face.box IN
    IF face.env.draw = "raise" THEN
        [acc EXCEPT !.ev = @ \o <<Ev("draw_raised", i)>>, !.raised = TRUE]
    ELSE IF face.env.infer = "raise" THEN
        [acc EXCEPT !.ev = @ \o <<Ev("draw", i), Ev("classify_raised", i)>>,
                    !.marks = @ \o <<Mark("rect", b, "green", 2, "", 0)>>,
                    !.raised = TRUE]
    ELSE
        [acc EXCEPT !.ev = @ \o <<Ev("draw", i), Ev("classify", i)>>,
                    !.marks = @ \o <<Mark("rect", b, "green", 2, "", 0),
                                     Mark("label", b, "green", 2, face.env.dominant, 0)>>]

RECURSIVE AnalizarLoop(_, _, _)
AnalizarLoop(faces, i, acc) ==
    IF i > Len(faces) \/ acc.raised THEN acc
    ELSE AnalizarLoop(faces, i + 1, AnalizarStep(faces[i], i, acc))

\* analizar_emocion_frame(frame): a fresh cascade each call, one pass,
\* everything drawn on the frame that was passed, which is returned
analizar_emocion_frame(frame, dets) ==
    IF IsEmptyFrame(frame) THEN
        \* cv2.cvtColor raises on None and on an empty array
        [ret |-> "raised", out |-> NoFrame, caller |-> frame, located |-> <<>>,
         used |-> "none", ev |-> <<Ev("locator_raised", 0)>>]
    ELSE
        LET loc == detect_faces_haar("haar", [NoInput EXCEPT !.p1 = dets, !.p2 = dets])
            r == AnalizarLoop(loc.faces, 1,
                              [marks |-> <<>>, ev |-> <<Ev("haar_pass1", 0)>>,
                               raised |-> FALSE])
            drawn == [frame EXCEPT !.marks = @ \o r.marks]
        IN  [ret |-> IF r.raised THEN "raised" ELSE "frame",
             out |-> IF r.raised THEN NoFrame ELSE drawn,
             caller |-> drawn, located |-> Boxes(loc.faces),
             used |-> "haar", ev |-> r.ev]

----------------------------------------------------------------------------
(* The state machine *)

NoFields == Fields("none", "unset", FALSE)

NoSwitch == [kind |-> "none", ret |-> "none", after |-> "none"]

NoEmotion == <<"none", 0>>

\* a call that neither takes nor returns a frame or an emotion
Call(o, a, r, ev) ==
    [op |-> o, arg |-> a, ret |-> r, given |-> NoFrame, caller |-> NoFrame,
     out |-> NoFrame, emotion |-> NoEmotion, located |-> <<>>, used |-> "none",
     ev |-> ev]

\* a call on a frame, r being what process_frame or analizar_emocion_frame did
FrameCall(o, frame, r) ==
    [op |-> o, arg |-> "", ret |-> r.ret, given |-> frame, caller |-> r.caller,
     out |-> r.out, emotion |-> NoEmotion, located |-> r.located, used |-> r.used,
     ev |-> r.ev]

\* no box is being worked on
NoGeo ==
    [b |-> <<0, 0, 0, 0>>, w |-> 0, h |-> 0, stage |-> "none",
     crop |-> <<0, 0, 0, 0>>, again |-> <<0, 0, 0, 0>>, size |-> 0,
     ev |-> <<>>, marks |-> <<>>]

\* no EmotionDetector has been constructed yet
DetInit ==
    /\ alive = FALSE
    /\ model_type = "none"
    /\ detector = "unset"
    /\ mediapipe_available = FALSE
    /\ call = Call("init", "", "none", <<>>)
    /\ pre = NoFields
    /\ switched = NoSwitch

\* get_emotion has not been called on any crop
NoEmo ==
    [crop |-> [infer |-> "none", mean |-> 0, dominant |-> "none"],
     before |-> NoEmotion, after |-> NoEmotion, sw |-> FALSE]

\* what an event handler did: whether it ran process_frame, the handlers
\* that were waiting in a dialog while it ran, what the cap.read() of its
\* update_frame returned, the position it set the capture to, and whether
\* it opened a capture over one that had not been released
Did(h, processed, during) ==
    [h |-> h, processed |-> processed, during |-> during, read |-> "none",
     target |-> 0, unreleased |-> FALSE]

\* no window has been built
NoUi ==
    [up |-> "no", current_model |-> "none",
     haar_btn |-> FALSE, yolo_btn |-> FALSE, mediapipe_btn |-> FALSE,
     warmed |-> FALSE, timer |-> FALSE, is_webcam_active |-> FALSE, cap |-> "none",
     unreleased |-> FALSE, pos |-> 0,
     video_paused |-> FALSE, total_frames |-> 0, current_frame |-> 0,
     slider |-> 0, play_btn |-> FALSE, controls |-> FALSE,
     is_recording |-> FALSE, video_writer |-> FALSE, record_timer |-> FALSE,
     modal |-> <<>>, last |-> Did("none", FALSE, {})]

Init ==
    /\ DetInit
    /\ emo = NoEmo
    /\ ui = NoUi
    /\ geo = NoGeo

\* EmotionDetector(model_type=name).  If init_detectors raises, no object
\* is handed to the caller.
Construct(name, e) ==
    LET r == InitResult(init_detectors(name, "unset", FALSE, e)) IN
    /\ ~alive
    /\ alive' = (r.ret # "raised")
    /\ model_type' = IF r.ret = "raised" THEN "none" ELSE r.f.model_type
    /\ detector' = IF r.ret = "raised" THEN "unset" ELSE r.f.detector
    /\ mediapipe_available' = IF r.ret = "raised" THEN FALSE ELSE r.f.mediapipe_available
    /\ call' = Call("construct", name, IF r.ret = "raised" THEN "raised" ELSE "object", r.ev)
    /\ pre' = NoFields
    /\ switched' = NoSwitch

\* detector.change_model(name)
ChangeModel(name, e) ==
    LET r == change_model(name, model_type, detector, mediapipe_available, e) IN
    /\ alive
    /\ model_type' = r.f.model_type
    /\ detector' = r.f.detector
    /\ mediapipe_available' = r.f.mediapipe_available
    /\ call' = Call("change_model", name, r.ret, r.ev)
    /\ pre' = Fields(model_type, detector, mediapipe_available)
    /\ switched' = [kind |-> name, ret |-> r.ret, after |-> r.f.model_type]
    /\ UNCHANGED alive

\* detector.process_frame(frame)
ProcessFrame(frame, inp) ==
    /\ alive
    /\ call' = FrameCall("process_frame", frame,
                         process_frame(model_type, detector, mediapipe_available,
                                       frame, inp))
    /\ pre' = Fields(model_type, detector, mediapipe_available)
    /\ UNCHANGED <<alive, model_type, detector, mediapipe_available, switched>>

\* detector.get_emotion(face_img)
GetEmotion(e) ==
    /\ alive
    /\ call' = [Call("get_emotion", e.infer, "emotion", <<>>)
                   EXCEPT !.emotion = get_emotion(model_type, e)]
    /\ pre' = Fields(model_type, detector, mediapipe_available)
    /\ UNCHANGED <<alive, model_type, detector, mediapipe_available, switched>>

\* face.py: analizar_emocion_frame(frame)
Analizar(frame, dets) ==
    /\ call' = FrameCall("analizar_emocion_frame", frame,
                         analizar_emocion_frame(frame, dets))
    /\ pre' = Fields(model_type, detector, mediapipe_available)
    /\ UNCHANGED <<alive, model_type, detector, mediapipe_available, switched>>

\* the calls a program makes on the library: the detector's public methods
\* and face.py's function
Next ==
    \/ \E name \in Names : \E e \in LoadEnvs(name) :
          Construct(name, e) /\ UNCHANGED <<emo, ui, geo>>
    \/ \E name \in Names : \E e \in LoadEnvs(name) :
          ChangeModel(name, e) /\ UNCHANGED <<emo, ui, geo>>
    \/ \E frame \in Frames :
          \E inp \in LocInputs(LocatorPath(model_type, mediapipe_available), frame) :
             ProcessFrame(frame, inp) /\ UNCHANGED <<emo, ui, geo>>
    \/ \E e \in ClassifyEnvs : GetEmotion(e) /\ UNCHANGED <<emo, ui, geo>>
    \/ \E frame \in Frames :
          \E dets \in (IF IsEmptyFrame(frame) THEN {<<>>} ELSE HaarLists) :
             Analizar(frame, dets) /\ UNCHANGED <<emo, ui, geo>>

Spec == Init /\ [][Next]_vars

----------------------------------------------------------------------------
(* The crop geometry on its own: one box of one frame is taken through the *)
(* steps of the loop body of process_frame (lines 176-235).                *)

\* coordinates around the edges of the frames below and around the margin
GeoCoords == {-60, -21, -20, 0, 10, 30, 47, 64, 90}

\* boxes as the locators build them: (x1, y1, x2, y2) with x1 <= x2, y1 <= y2
GeoBoxes ==
    {<<x1, y1, x2, y2>> : x1 \in GeoCoords, y1 \in GeoCoords,
                          x2 \in GeoCoords, y2 \in GeoCoords}

\* frames of W x H pixels, as <<W, H>>
GeoFrames == {<<1, 1>>, <<64, 48>>}

GeoFrame(g) == [obj |-> "caller", img |-> 1, h |-> g.h, w |-> g.w, marks |-> <<>>]

GeoInit ==
    /\ DetInit
    /\ emo = NoEmo
    /\ ui = NoUi
    /\ \E b \in {x \in GeoBoxes : x[1] <= x[3] /\ x[2] <= x[4]} : \E f \in GeoFrames :
          geo = [NoGeo EXCEPT !.b = b, !.w = f[1], !.h = f[2], !.stage = "input"]

\* lines 179-183: the expanded and clipped box, and the array cut out
Clip ==
    /\ geo.stage = "input"
    /\ geo' = [geo EXCEPT !.stage = "clipped",
                          !.crop = CropBox(geo.b, GeoFrame(geo)),
                          !.size = CropSize(geo.b, GeoFrame(geo))]
    /\ UNCHANGED <<det_vars, emo, ui>>

\* the clipped box clipped again to the same frame
ClipAgain ==
    /\ geo.stage = "clipped"
    /\ geo' = [geo EXCEPT !.stage = "reclipped",
                          !.again = Clamp(geo.crop, geo.w, geo.h)]
    /\ UNCHANGED <<det_vars, emo, ui>>

\* lines 176-235 for the box, on a detector whose backend is mt
LoopBody(mt) ==
    LET r == FaceStep(mt, "none", GeoFrame(geo), Face(geo.b, EnvOk), 1,
                      [marks |-> <<>>, ev |-> <<>>, raised |-> FALSE])
    IN  /\ geo.stage = "reclipped"
        /\ geo' = [geo EXCEPT !.stage = "looped", !.ev = r.ev, !.marks = r.marks]
        /\ UNCHANGED <<det_vars, emo, ui>>

GeoNext ==
    \/ Clip
    \/ ClipAgain
    \/ \E mt \in {"mediapipe", "deepface"} : LoopBody(mt)

SpecGeo == GeoInit /\ [][GeoNext]_vars

----------------------------------------------------------------------------
(* The classifier across backend switches: the detector is constructed and *)
(* switched as above, and get_emotion is called on crops, the result for   *)
(* the last crop being remembered next to the one before.                  *)

\* the crop itself: what the libraries compute from its pixels, without the
\* draw of np.random.choice, which is made anew at every call
CropOf(e) == [infer |-> e.infer, mean |-> e.mean, dominant |-> e.dominant]

\* detector.get_emotion(face_img), remembered per crop
EmoGet(e) ==
    LET r == get_emotion(model_type, e) IN
    /\ GetEmotion(e)
    /\ emo' = [crop |-> CropOf(e),
               before |-> IF emo.crop = CropOf(e) /\ emo.sw THEN emo.after ELSE r,
               after |-> r,
               sw |-> FALSE]
    /\ UNCHANGED <<ui, geo>>

\* detector.change_model(name) between two calls of get_emotion
EmoSwitch(name, e) ==
    /\ ChangeModel(name, e)
    /\ emo' = [emo EXCEPT !.sw = TRUE]
    /\ UNCHANGED <<ui, geo>>

EmoNext ==
    \/ \E name \in Names : \E e \in LoadEnvs(name) :
          Construct(name, e) /\ UNCHANGED <<emo, ui, geo>>
    \/ \E name \in Names : \E e \in LoadEnvs(name) :
          EmoSwitch(name, e)
    \/ \E e \in ClassifyEnvs : EmoGet(e)

SpecEmo == Init /\ [][EmoNext]_vars

----------------------------------------------------------------------------
(* dashboard.py: the window.  Its handlers run one at a time on the GUI    *)
(* thread; a handler that opens a message box waits in it while the event  *)
(* loop of the box goes on delivering timer events, and the window takes   *)
(* no click until the box is closed.  An exception that no handler catches *)
(* ends the application.  The capture source is the camera or a video      *)
(* file; a video file delivers its frames in order and nothing after the   *)
(* last one.                                                               *)

\* the message boxes that can be open at once
MaxModal == 2

\* CAP_PROP_FRAME_COUNT of the video file
TotalFrames == 6

\* CAP_PROP_FPS of the video file
VideoFps == 1

\* max_w, max_h of update_frame and upload_image
max_w == 640

max_h == 480

\* the largest value of progress_slider, a QSlider whose range is never set
SliderMax == 99

\* the values sliderMoved hands to seek_video
SeekValues == {0, 50, SliderMax}

\* ultralytics' YOLO('yolov8n-face.pt') in the dashboard's own yolo branch
Yolo8Outcomes == {"ok", "fails"}

\* cv2.VideoCapture(0)
CameraOutcomes == {"opened", "not_opened", "raises"}

\* cap.read(): a frame, ret False, or ret True with an empty array
ReadOutcomes == {"frame", "no_frame", "empty"}

\* QFileDialog.getOpenFileName and cv2.imread in upload_image
ImageOutcomes == {"cancel", "unreadable", "image"}

\* QFileDialog.getOpenFileName and cv2.VideoCapture(file_path) in upload_video
VideoOutcomes == {"cancel", "not_opened", "no_frames", "opened", "raises"}

\* QFileDialog.getSaveFileName in toggle_recording
SaveOutcomes == {"cancel", "path"}

\* the frame the camera delivers
CamFrame == [obj |-> "caller", img |-> 2, h |-> 48, w |-> 64, marks |-> <<>>]

\* frame p of the video file, 1280 x 720
VideoFrame(p) == [obj |-> "caller", img |-> 10 + p, h |-> 720, w |-> 1280, marks |-> <<>>]

\* the images cv2.imread may return
ImageFrames ==
    { [obj |-> "caller", img |-> 3, h |-> 720, w |-> 1280, marks |-> <<>>],
      [obj |-> "caller", img |-> 4, h |-> 48, w |-> 64, marks |-> <<>>] }

\* scale = min(max_w / w, max_h / h, 1.0); the frame is resized to
\* (int(w * scale), int(h * scale)) when scale < 1.0
Resize(f) ==
    IF f.w <= max_w /\ f.h <= max_h THEN f
    ELSE IF max_w * f.h <= max_h * f.w
    THEN [f EXCEPT !.w = Trunc(f.w * max_w, f.w), !.h = Trunc(f.h * max_w, f.w)]
    ELSE [f EXCEPT !.w = Trunc(f.w * max_h, f.h), !.h = Trunc(f.h * max_h, f.h)]

\* what the locator's library reports for a frame of a source: no face,
\* or one face inside the frame that the classifier labels
OneFace(S) ==
    {inp \in S :
        LET found == inp.p1 \o inp.p2 \o inp.dets IN
        /\ Len(found) <= 1
        /\ \A i \in 1..Len(found) :
              /\ found[i].env # EnvInferRaises
              /\ \A k \in 1..4 : found[i].raw[k] \in 0..100}

DashHaarInputs == OneFace(HaarInputs)

DashYoloInputs == OneFace(YoloInputs)

DashMpInputs == OneFace(MpInputs)

\* the reports for the routine the window's detector runs
DashInputs(path) ==
    IF path = "haar" THEN DashHaarInputs
    ELSE IF path = "yolo" THEN DashYoloInputs
    ELSE DashMpInputs

\* the handler makes no call on the detector
NoCall ==
    /\ call' = Call("none", "", "none", <<>>)
    /\ pre' = Fields(model_type, detector, mediapipe_available)
    /\ UNCHANGED <<alive, model_type, detector, mediapipe_available, switched>>

\* a message box opened by handler `of`, which does `then` once it is closed
Dialog(of, then) == [of |-> of, then |-> then]

\* the handlers waiting in a message box
Waiting(u) == {u.modal[i].of : i \in 1..Len(u.modal)}

\* haar_btn.setChecked(..); yolo_btn.setChecked(..); mediapipe_btn.setChecked(..)
Checked(u, name) ==
    [u EXCEPT !.haar_btn = (name = "haar"),
              !.yolo_btn = (name = "yolo"),
              !.mediapipe_btn = (name = "mediapipe")]

\* a click on a checkable button flips its checked state before the
\* clicked signal is delivered
Toggled(u, name) ==
    [u EXCEPT !.haar_btn = IF name = "haar" THEN ~@ ELSE @,
              !.yolo_btn = IF name = "yolo" THEN ~@ ELSE @,
              !.mediapipe_btn = IF name = "mediapipe" THEN ~@ ELSE @]

\* the values of cap that are a capture that is open
OpenCaps == {"camera", "video"}

\* self.cap.release(); self.cap = None
Released(u) == [u EXCEPT !.cap = "none", !.pos = 0]

\* self.cap = cv2.VideoCapture(..): the capture cap held before is
\* overwritten, released or not; unreleased tells the handler's record
\* which of the two it was
Opened(u, kind) ==
    [u EXCEPT !.unreleased = (u.cap \in OpenCaps), !.cap = kind, !.pos = 0]

\* handler h, which left the window as v, is over
Ended(v, h) ==
    [v EXCEPT !.unreleased = FALSE,
              !.last = [Did(h, FALSE, {}) EXCEPT !.unreleased = v.unreleased]]

\* _stop_current_media()
stop_current_media(u) ==
    IF u.is_webcam_active THEN
        [Released(u) EXCEPT !.timer = FALSE, !.is_webcam_active = FALSE,
                            !.controls = FALSE]
    ELSE IF u.timer THEN [Released(u) EXCEPT !.timer = FALSE, !.controls = FALSE]
    ELSE u

\* the load whose events are ev ran a warm-up inference
WarmedBy(ev) == \E i \in 1..Len(ev) : ev[i].e = "warmup"

\* EmotionDashboard(): the detector is built for mediapipe, current_model
\* is set to "mediapipe" and the MediaPipe button is checked
DashConstruct(e) ==
    LET r == InitResult(init_detectors("mediapipe", "unset", FALSE, e)) IN
    /\ ui.up = "no"
    /\ Construct("mediapipe", e)
    /\ ui' = IF r.ret = "raised" THEN
                 [ui EXCEPT !.up = "aborted", !.last = Did("__init__", FALSE, {})]
             ELSE
                 [Checked(ui, "mediapipe") EXCEPT !.up = "running",
                                                  !.current_model = "mediapipe",
                                                  !.warmed = WarmedBy(r.ev),
                                                  !.last = Did("__init__", FALSE, {})]
    /\ UNCHANGED <<emo, geo>>

\* the else branch of change_model(model_name), u being the window as the
\* branch finds it
DashSwitch(model_name, e, u) ==
    LET r == change_model(model_name, model_type, detector, mediapipe_available, e) IN
    /\ ChangeModel(model_name, e)
    /\ ui' = IF r.ret = "raised" THEN
                 [u EXCEPT !.up = "aborted", !.last = Did("change_model", FALSE, Waiting(u))]
             ELSE IF r.ret = "True" THEN
                 [Checked(u, model_name) EXCEPT
                     !.current_model = model_name,
                     !.warmed = WarmedBy(r.ev),
                     !.last = Did("change_model", FALSE, Waiting(u))]
             ELSE
                 [u EXCEPT !.modal = Append(@, Dialog("change_model", "return")),
                           !.last = Did("change_model", FALSE, Waiting(u))]

\* a click on the button of backend model_name: change_model(model_name).
\* The yolo branch loads YOLOv8 itself and puts it into the detector; when
\* that fails it shows a message box and then calls change_model("haar").
ClickModel(model_name, e, y) ==
    LET u == Toggled(ui, model_name) IN
    /\ ui.up = "running"
    /\ ui.modal = <<>>
    /\ IF model_name = "yolo" THEN
           /\ pre' = Fields(model_type, detector, mediapipe_available)
           /\ UNCHANGED <<alive, mediapipe_available, switched>>
           /\ IF y = "ok" THEN
                  /\ detector' = "yolo8"
                  /\ model_type' = "yolo"
                  /\ call' = Call("dashboard_change_model", "yolo", "None",
                                  <<Ev("load_yolo8", 0)>>)
                  /\ ui' = [Checked(u, "yolo") EXCEPT
                               !.current_model = "yolo",
                               !.warmed = WarmedBy(<<Ev("load_yolo8", 0)>>),
                               !.last = Did("change_model", FALSE, {})]
              ELSE
                  /\ UNCHANGED <<detector, model_type>>
                  /\ call' = Call("dashboard_change_model", "yolo", "waiting",
                                  <<Ev("load_yolo8_failed", 0)>>)
                  /\ ui' = [u EXCEPT
                               !.modal = Append(@, Dialog("change_model", "change_model_haar")),
                               !.last = Did("change_model", FALSE, {})]
       ELSE DashSwitch(model_name, e, u)
    /\ UNCHANGED <<emo, geo>>

\* the rest of toggle_recording once the save dialog is closed, s being
\* what the dialog returned; self.cap.get raises when cap is None
start_recording(u, s) ==
    IF s = "cancel" THEN u
    ELSE IF u.cap = "none" THEN [u EXCEPT !.up = "aborted"]
    ELSE [u EXCEPT !.video_writer = TRUE, !.is_recording = TRUE, !.record_timer = TRUE]

\* the message box or dialog on top is closed and the handler that opened
\* it goes on
CloseDialog(e, s) ==
    LET d == ui.modal[Len(ui.modal)]
        u == [ui EXCEPT !.modal = SubSeq(@, 1, Len(@) - 1)]
        v == IF d.then = "release_cap" /\ u.cap # "none" THEN Released(u)
             ELSE IF d.then = "start_recording" THEN start_recording(u, s)
             ELSE u
    IN  /\ ui.up = "running"
        /\ ui.modal # <<>>
        /\ IF d.then = "change_model_haar" THEN DashSwitch("haar", e, u)
           ELSE /\ ui' = [v EXCEPT !.last = Did(d.of, FALSE, Waiting(u))]
                /\ NoCall
        /\ UNCHANGED <<emo, geo>>

\* toggle_webcam(), c being what cv2.VideoCapture(0) does
toggle_webcam(u, c) ==
    IF u.is_webcam_active THEN stop_current_media(u)
    ELSE
        LET v == stop_current_media(u) IN
        IF c = "opened" THEN
            [Opened(v, "camera") EXCEPT !.is_webcam_active = TRUE, !.timer = TRUE,
                                        !.controls = FALSE]
        ELSE IF c = "not_opened" THEN
            [Opened(v, "closed_camera") EXCEPT
                !.modal = Append(@, Dialog("toggle_webcam", "return"))]
        ELSE
            [v EXCEPT !.modal = Append(@, Dialog("toggle_webcam", "release_cap"))]

\* a click on the camera button
ToggleWebcam(c) ==
    /\ ui.up = "running"
    /\ ui.modal = <<>>
    /\ ui' = Ended(toggle_webcam(ui, c), "toggle_webcam")
    /\ NoCall /\ UNCHANGED <<emo, geo>>

\* stop_video() without the second cap.set(cv2.CAP_PROP_POS_FRAMES, 0)
stop_video_NoRewind(u, raised) ==
    LET v == [u EXCEPT !.timer = FALSE] IN
    IF v.cap = "none" \/ v.total_frames <= 0 THEN v
    ELSE LET w == [v EXCEPT !.pos = 0, !.current_frame = 0, !.slider = 0,
                            !.video_paused = TRUE, !.play_btn = FALSE]
         IN  IF w.cap # "video" THEN w
             ELSE IF raised THEN [w EXCEPT !.pos = 1, !.up = "aborted"]
             ELSE [w EXCEPT !.pos = 1]

\* stop_video(): what it does to the window, raised telling whether its
\* process_frame raised; nothing catches that exception
stop_video(u, raised) ==
    LET v == [u EXCEPT !.timer = FALSE] IN
    IF v.cap = "none" \/ v.total_frames <= 0 THEN v
    ELSE LET w == [v EXCEPT !.pos = 0, !.current_frame = 0, !.slider = 0,
                            !.video_paused = TRUE, !.play_btn = FALSE]
         IN  IF w.cap # "video" THEN w
             ELSE IF raised THEN [w EXCEPT !.pos = 1, !.up = "aborted"]
             ELSE [w EXCEPT !.pos = 0]

\* stop_video() in a handler that did `did` so far: the frame it reads from a video is
\* handed to process_frame as it is
DoStop(u, did, inp) ==
    LET r == process_frame(model_type, detector, mediapipe_available, VideoFrame(0), inp) IN
    IF u.cap = "video" /\ u.total_frames > 0 THEN
        /\ ProcessFrame(VideoFrame(0), inp)
        /\ ui' = [stop_video(u, r.ret = "raised") EXCEPT
                     !.last = [did EXCEPT !.processed = TRUE]]
    ELSE
        /\ ui' = [stop_video(u, FALSE) EXCEPT !.last = did]
        /\ NoCall

\* progress = int((current_frame / total_frames) * 100), as the slider keeps it
Progress(p, total) == Min(Trunc(p * 100, total), SliderMax)

\* update_frame() run by handler h on the window u, p being the position
\* h set the capture to; rd is what the camera's cap.read() gives and inp
\* what the locator's library reports
UpdateFrame(u, h, p, rd, inp) ==
    LET got == IF u.cap = "video"
               THEN (IF u.pos < u.total_frames THEN "frame" ELSE "no_frame")
               ELSE rd
        frame == Resize(IF u.cap = "video" THEN VideoFrame(u.pos) ELSE CamFrame)
        r == process_frame(model_type, detector, mediapipe_available, frame, inp)
        none == [Did(h, FALSE, Waiting(u)) EXCEPT !.target = p]
        did == [none EXCEPT !.read = got]
        done == [did EXCEPT !.processed = TRUE]
    IN  IF u.video_paused /\ ~u.is_webcam_active THEN
            /\ ui' = [u EXCEPT !.last = none]
            /\ NoCall
        ELSE IF u.cap \notin OpenCaps THEN
            /\ ui' = [u EXCEPT !.timer = FALSE, !.last = none]
            /\ NoCall
        ELSE IF got = "no_frame" THEN
            IF u.is_webcam_active THEN
                /\ ui' = [toggle_webcam([u EXCEPT !.timer = FALSE], "opened")
                             EXCEPT !.last = did]
                /\ NoCall
            ELSE DoStop([u EXCEPT !.timer = FALSE], did, inp)
        ELSE IF got = "empty" THEN
            /\ ui' = [u EXCEPT !.last = did]
            /\ NoCall
        ELSE
            /\ ProcessFrame(frame, inp)
            /\ ui' = IF r.ret = "raised" THEN
                         [u EXCEPT !.pos = IF u.cap = "video" THEN @ + 1 ELSE @,
                                   !.modal = Append(@, Dialog("update_frame", "return")),
                                   !.last = done]
                     ELSE IF u.total_frames > 0 /\ ~u.is_webcam_active THEN
                         [u EXCEPT !.pos = @ + 1,
                                   !.current_frame = u.pos + 1,
                                   !.slider = Progress(u.pos + 1, u.total_frames),
                                   !.last = done]
                     ELSE
                         [u EXCEPT !.pos = IF u.cap = "video" THEN @ + 1 ELSE @,
                                   !.last = done]

\* a tick of the frame timer: update_frame()
Tick(rd, inp) ==
    /\ ui.up = "running"
    /\ ui.timer
    /\ Len(ui.modal) < MaxModal
    /\ UpdateFrame(ui, "update_frame", 0, rd, inp)
    /\ UNCHANGED <<emo, geo>>

\* a click on the image button: upload_image(), o being what the file
\* dialog and cv2.imread give and image the image read
UploadImage(o, image, inp) ==
    LET u == stop_current_media(ui)
        frame == Resize(image)
        r == process_frame(model_type, detector, mediapipe_available, frame, inp)
    IN  /\ ui.up = "running"
        /\ ui.modal = <<>>
        /\ IF o = "image" THEN
               /\ ProcessFrame(frame, inp)
               /\ ui' = [u EXCEPT
                            !.modal = IF r.ret = "raised"
                                      THEN Append(@, Dialog("upload_image", "return"))
                                      ELSE @,
                            !.last = Did("upload_image", TRUE, {})]
           ELSE
               /\ ui' = [u EXCEPT
                            !.modal = IF o = "unreadable"
                                      THEN Append(@, Dialog("upload_image", "return"))
                                      ELSE @,
                            !.last = Did("upload_image", FALSE, {})]
               /\ NoCall
        /\ UNCHANGED <<emo, geo>>

\* upload_video(), o being what the file dialog and cv2.VideoCapture give
upload_video(u, o) ==
    LET v == [stop_current_media(u) EXCEPT !.is_webcam_active = FALSE] IN
    IF o = "cancel" THEN stop_current_media(u)
    ELSE IF o = "raises" THEN
        [v EXCEPT !.modal = Append(@, Dialog("upload_video", "release_cap"))]
    ELSE IF o = "not_opened" THEN
        [Opened(v, "closed_video") EXCEPT
            !.modal = Append(@, Dialog("upload_video", "return"))]
    ELSE IF o = "no_frames" THEN
        [Opened(v, "video") EXCEPT
            !.total_frames = 0,
            !.modal = Append(@, Dialog("upload_video", "release_cap"))]
    ELSE
        [Opened(v, "video") EXCEPT
            !.total_frames = TotalFrames, !.current_frame = 0, !.slider = 0,
            !.controls = TRUE, !.video_paused = FALSE, !.play_btn = TRUE,
            !.timer = TRUE]

\* a click on the video button
UploadVideo(o) ==
    /\ ui.up = "running"
    /\ ui.modal = <<>>
    /\ ui' = Ended(upload_video(ui, o), "upload_video")
    /\ NoCall /\ UNCHANGED <<emo, geo>>

\* toggle_play_pause(), after the click has flipped the play button
toggle_play_pause(u) ==
    LET v == [u EXCEPT !.play_btn = ~@] IN
    IF ~v.is_webcam_active /\ v.cap # "none" THEN
        IF v.video_paused THEN [v EXCEPT !.timer = TRUE, !.video_paused = FALSE]
        ELSE [v EXCEPT !.timer = FALSE, !.video_paused = TRUE]
    ELSE v

\* a click on the play button of the video controls
TogglePlayPause ==
    /\ ui.up = "running"
    /\ ui.modal = <<>>
    /\ ui.controls
    /\ ui' = [toggle_play_pause(ui) EXCEPT !.last = Did("toggle_play_pause", FALSE, {})]
    /\ NoCall /\ UNCHANGED <<emo, geo>>

\* a click on the stop button of the video controls: stop_video()
StopVideo(inp) ==
    /\ ui.up = "running"
    /\ ui.modal = <<>>
    /\ ui.controls
    /\ DoStop(ui, Did("stop_video", FALSE, {}), inp)
    /\ UNCHANGED <<emo, geo>>

\* new_pos of rewind_video: max(0, current - 5 * fps)
rewind_pos(u) == Max(0, u.pos - 5 * VideoFps)

\* new_pos of forward_video: min(total_frames - 1, current + 5 * fps)
forward_pos(u) == Min(u.total_frames - 1, u.pos + 5 * VideoFps)

\* frame_pos of seek_video: int((value / 100) * total_frames)
seek_pos(u, value) == Trunc(value * u.total_frames, 100)

\* rewind_video(), forward_video() and seek_video(value): the capture is
\* set to position p and update_frame() is called; the slider is at value
\* when it is the slider that was dragged
Transport(h, p, value, inp) ==
    LET u == [ui EXCEPT !.pos = IF ui.cap = "video" THEN p ELSE @,
                        !.current_frame = IF h = "seek_video" THEN p ELSE @,
                        !.slider = IF h = "seek_video" THEN value ELSE @]
    IN  /\ ui.up = "running"
        /\ ui.modal = <<>>
        /\ ui.controls
        /\ IF ui.cap # "none" /\ ui.total_frames > 0
           THEN UpdateFrame(u, h, p, "frame", inp)
           ELSE /\ ui' = [ui EXCEPT !.slider = IF h = "seek_video" THEN value ELSE @,
                                    !.last = Did(h, FALSE, {})]
                /\ NoCall
        /\ UNCHANGED <<emo, geo>>

\* a click on the rewind button
Rewind(inp) == Transport("rewind_video", rewind_pos(ui), 0, inp)

\* a click on the forward button
Forward(inp) == Transport("forward_video", forward_pos(ui), 0, inp)

\* the progress slider is dragged to value
Seek(value, inp) == Transport("seek_video", seek_pos(ui, value), value, inp)

\* toggle_recording(): the save dialog is open while the frame timer runs
toggle_recording(u) ==
    IF ~u.is_webcam_active THEN u
    ELSE IF ~u.is_recording THEN
        [u EXCEPT !.modal = Append(@, Dialog("toggle_recording", "start_recording"))]
    ELSE [u EXCEPT !.is_recording = FALSE, !.video_writer = FALSE, !.record_timer = FALSE]

\* a click on the record button of the camera sidebar
ToggleRecording ==
    /\ ui.up = "running"
    /\ ui.modal = <<>>
    /\ ui' = [toggle_recording(ui) EXCEPT !.last = Did("toggle_recording", FALSE, {})]
    /\ NoCall /\ UNCHANGED <<emo, geo>>

\* the events of the window that choose the backend, run the camera and
\* record it
DashNext ==
    \/ \E e \in LoadEnvs("mediapipe") : DashConstruct(e)
    \/ \E model_name \in {"haar", "yolo", "mediapipe"} :
          \E e \in LoadEnvs(IF model_name = "yolo" THEN "haar" ELSE model_name) :
             \E y \in (IF model_name = "yolo" THEN Yolo8Outcomes ELSE {"ok"}) :
                ClickModel(model_name, e, y)
    \/ \E e \in LoadEnvs("haar") : \E s \in SaveOutcomes : CloseDialog(e, s)
    \/ \E c \in (IF ui.is_webcam_active THEN {"opened"} ELSE CameraOutcomes) :
          ToggleWebcam(c)
    \/ \E rd \in ReadOutcomes :
          \E inp \in (IF rd = "frame"
                      THEN LocInputs(LocatorPath(model_type, mediapipe_available), CamFrame)
                      ELSE {NoInput}) :
             Tick(rd, inp)
    \/ ToggleRecording

SpecDash == Init /\ [][DashNext]_vars

\* the events of the window that choose and play the source, with the
\* backend the window was built with and nothing recorded
MediaNext ==
    \/ \E e \in LoadEnvs("mediapipe") : DashConstruct(e)
    \/ CloseDialog(<<>>, "cancel")
    \/ \E c \in (IF ui.is_webcam_active THEN {"opened"} ELSE CameraOutcomes) :
          ToggleWebcam(c)
    \/ \E rd \in ReadOutcomes :
          \E inp \in DashInputs(LocatorPath(model_type, mediapipe_available)) :
             Tick(rd, inp)
    \/ \E o \in ImageOutcomes : \E image \in ImageFrames :
          \E inp \in DashInputs(LocatorPath(model_type, mediapipe_available)) :
             UploadImage(o, image, inp)
    \/ \E o \in VideoOutcomes : UploadVideo(o)
    \/ TogglePlayPause
    \/ \E inp \in DashInputs(LocatorPath(model_type, mediapipe_available)) :
          StopVideo(inp)
    \/ \E inp \in DashInputs(LocatorPath(model_type, mediapipe_available)) :
          Rewind(inp)
    \/ \E inp \in DashInputs(LocatorPath(model_type, mediapipe_available)) :
          Forward(inp)
    \/ \E value \in SeekValues :
          \E inp \in DashInputs(LocatorPath(model_type, mediapipe_available)) :
             Seek(value, inp)

SpecMedia == Init /\ [][MediaNext]_vars

----------------------------------------------------------------------------
(* Properties *)

HasEvent(n) == \E i \in 1..Len(call.ev) : call.ev[i].e = n

NowFields == Fields(model_type, detector, mediapipe_available)

\* a null frame, or an array with no pixel
NullOrZeroSized(f) == f.obj = "None" \/ f.h = 0 \/ f.w = 0

\* process_frame was called on a frame that has pixels
ProcessedFrame == call.op = "process_frame" /\ ~NullOrZeroSized(call.given)

\* face i of the last frame call was dealt with: drawn, or skipped as empty
Handled(i) ==
    \E j \in 1..Len(call.ev) :
        call.ev[j].i = i /\ call.ev[j].e \in {"draw", "skip"}

\* C1: change_model with a name it does not recognise returns False and
\* leaves model_type, the locator object and mediapipe_available as they were.
C1_UnknownNameRejected ==
    (call.op = "change_model" /\ call.arg \notin Kinds)
        => (call.ret = "False" /\ NowFields = pre)

\* C1 witness: change_model("unknown") on a detector whose backend is haar.
C1_Witness ==
    /\ call.op = "change_model"
    /\ call.arg = "unknown"
    /\ call.ret = "False"
    /\ pre.model_type = "haar"
    /\ model_type = "haar"
    /\ detector = "haar"

\* C2 (as claimed): whenever a backend fails to load during construction or
\* a switch, nothing is raised to the caller, the detector ends on haar with
\* a Haar cascade, and a warning has been printed.
C2_LoadFailureFallsBack ==
    (call.op \in {"construct", "change_model"} /\ HasEvent("load_failed"))
        => /\ call.ret # "raised"
           /\ model_type = "haar"
           /\ detector = "haar"
           /\ HasEvent("warning")

\* C3 (as claimed): when init_detectors raises inside change_model for a
\* recognised kind, change_model returns False and the detector is reset to
\* haar with a Haar cascade.
C3_ThrowingSwitchResets ==
    (call.op = "change_model" /\ call.arg \in Kinds /\ HasEvent("init_detectors_raised"))
        => /\ call.ret = "False"
           /\ model_type = "haar"
           /\ detector = "haar"

\* C4 (as claimed): whatever the constructor argument and the switches
\* made, process_frame on a non-empty frame never fails because the
\* detection routine it runs finds no usable locator object.
C4_AlwaysHasLocator ==
    ProcessedFrame => ~HasEvent("locator_raised")

\* C5: process_frame on None or on an array of size 0 returns the very
\* object it was given, with nothing drawn, runs no locator and no
\* classifier, and changes no field of the detector.
C5_EmptyFrameNoOp ==
    (call.op = "process_frame" /\ NullOrZeroSized(call.given))
        => /\ call.ret = "frame"
           /\ call.out = call.given
           /\ call.caller = call.given
           /\ call.used = "none"
           /\ call.ev = <<>>
           /\ NowFields = pre

\* C5 witness: process_frame was called on an array of size 0.
C5_Witness ==
    /\ call.op = "process_frame"
    /\ call.given.obj = "caller"
    /\ call.given.h = 0
    /\ call.ret = "frame"

\* C6 (as claimed): once the faces are located, a frame call returns an
\* annotated frame and deals with every located face, whatever raises
\* while one face is classified or drawn.
C6_PerFaceFailureIsolated ==
    (/\ call.op \in {"process_frame", "analizar_emocion_frame"}
     /\ ~NullOrZeroSized(call.given)
     /\ ~HasEvent("locator_raised"))
        => /\ call.ret = "frame"
           /\ \A i \in 1..Len(call.located) : Handled(i)

\* C7 (as claimed): whenever the inference inside get_emotion raises,
\* get_emotion returns exactly ("Neutral", 0.5), whichever backend is active.
C7_FallbackAlwaysNeutral ==
    (call.op = "get_emotion" /\ call.arg = "raise")
        => call.emotion = <<"Neutral", 50>>

\* C8: process_frame leaves the caller's frame object as it was passed;
\* what it returns for a non-empty frame is another object.
C8_CallerFrameUntouched ==
    call.op = "process_frame"
        => /\ call.caller = call.given
           /\ (ProcessedFrame /\ call.ret = "frame") => call.out.obj # call.given.obj

\* C8 witness: process_frame drew two faces and returned.
C8_Witness ==
    /\ ProcessedFrame
    /\ call.ret = "frame"
    /\ Len(call.located) = 2
    /\ Len(call.out.marks) = 4

\* C9: when the locator returns no face for a non-empty frame, the frame
\* process_frame returns has the dimensions and the content of the input.
C9_NoFacesSameContent ==
    (ProcessedFrame /\ call.ret = "frame" /\ Len(call.located) = 0)
        => /\ call.out.h = call.given.h
           /\ call.out.w = call.given.w
           /\ call.out.img = call.given.img
           /\ call.out.marks = call.given.marks

\* C9 witness: the MediaPipe routine ran on a non-empty frame and found nothing.
C9_Witness ==
    /\ ProcessedFrame
    /\ call.ret = "frame"
    /\ call.used = "mediapipe"
    /\ Len(call.located) = 0

\* C10: after change_model(k) returned True, the backend is k or haar, and
\* every process_frame until the next switch runs the detection routine of
\* that backend and is not stopped by a missing or mismatched locator.
C10_SwitchTakesEffect ==
    switched.ret = "True"
        => /\ model_type = switched.after
           /\ switched.after \in {switched.kind, "haar"}
           /\ ProcessedFrame
                => /\ call.used = switched.after
                   /\ ~HasEvent("locator_raised")

\* C10 witness: after change_model("mediapipe") returned True, a frame was
\* processed by the MediaPipe routine, which located a face.
C10_Witness ==
    /\ ProcessedFrame
    /\ switched.kind = "mediapipe"
    /\ switched.ret = "True"
    /\ call.used = "mediapipe"
    /\ call.ret = "frame"
    /\ Len(call.located) > 0

\* C12 (as claimed): the backend kinds are exactly haar, yolo and mediapipe:
\* change_model returns True only for these three, and any other name given
\* to the constructor or to change_model is refused as a caller error (no
\* object is built, change_model returns False), never taken as a backend.
C12_ClosedKindSet ==
    /\ (call.op = "change_model" /\ call.ret = "True")
          => call.arg \in {"haar", "yolo", "mediapipe"}
    /\ (call.op = "change_model" /\ call.arg \notin {"haar", "yolo", "mediapipe"})
          => (call.ret = "False" /\ NowFields = pre)
    /\ (call.op = "construct" /\ call.arg \notin {"haar", "yolo", "mediapipe"})
          => (call.ret = "raised" /\ ~alive)

\* C13 (as claimed): for every located box and every frame of W x H
\* pixels, W, H >= 1, the box used for cropping (x, y, width, height)
\* satisfies 0 <= x, 0 <= y, x + width <= W, y + height <= H, width >= 1
\* and height >= 1, boxes partly or wholly outside the frame included.
C13_ClipPostcondition ==
    geo.stage \in {"clipped", "reclipped", "looped"}
        => LET x == geo.crop[1]
               y == geo.crop[2]
               width == geo.crop[3] - geo.crop[1]
               height == geo.crop[4] - geo.crop[2]
           IN  /\ 0 <= x
               /\ 0 <= y
               /\ x + width <= geo.w
               /\ y + height <= geo.h
               /\ width >= 1
               /\ height >= 1

C18_EmptyRegionSkipped ==
    geo.stage = "looped"
        => /\ geo.crop = <<Max(0, geo.b[1] - 20), Max(0, geo.b[2] - 20),
                           Min(geo.w, geo.b[3] + 20), Min(geo.h, geo.b[4] + 20)>>
           /\ (\/ geo.b[3] + 20 <= 0
               \/ geo.b[4] + 20 <= 0
               \/ geo.b[1] - 20 >= geo.w
               \/ geo.b[2] - 20 >= geo.h)
                 => (geo.ev = <<Ev("skip", 1)>> /\ geo.marks = <<>>)

\* C19 (as claimed): every box rectangle process_frame draws has its four
\* corner coordinates inside [0, W] x [0, H], whatever box the active
\* locator returned.
C19_DrawnBoxInsideFrame ==
    (ProcessedFrame /\ call.ret = "frame")
        => \A i \in 1..Len(call.out.marks) :
              LET m == call.out.marks[i] IN
              m.k = "rect"
                 => /\ 0 <= m.x1 /\ m.x1 <= call.given.w
                    /\ 0 <= m.x2 /\ m.x2 <= call.given.w
                    /\ 0 <= m.y1 /\ m.y1 <= call.given.h
                    /\ 0 <= m.y2 /\ m.y2 <= call.given.h

\* C20 (as claimed): the background rectangle of every label and the
\* baseline of its text have y >= 0, also for boxes whose top edge is at or
\* near y = 0.
C20_LabelInsideFrame ==
    (ProcessedFrame /\ call.ret = "frame")
        => \A i \in 1..Len(call.out.marks) :
              LET m == call.out.marks[i] IN
              m.k = "label" => (m.top >= 0 /\ m.base >= 0)

\* C16 (as claimed): in every reachable state the locator object is the one
\* of the backend model_type names, with mediapipe_available set when that
\* backend is mediapipe, and every detection routine process_frame runs is
\* run on the object of its own kind: no locator left over from an earlier
\* backend is used, and the MediaPipe routine never runs on a Haar or YOLO
\* object.
C16_LocatorMatchesBackend ==
    alive
        => /\ model_type = "haar" => detector = "haar"
           /\ model_type = "yolo" => detector = "yolo5"
           /\ model_type = "mediapipe" => (detector = "mp" /\ mediapipe_available)
           /\ (ProcessedFrame /\ call.used = "haar") => pre.detector = "haar"
           /\ (ProcessedFrame /\ call.used = "yolo") => pre.detector = "yolo5"
           /\ (ProcessedFrame /\ call.used = "mediapipe") => pre.detector = "mp"

\* C15 (as claimed): after switches of backend get_emotion returns for a
\* crop what it returned for the same crop before them, whichever backend
\* is active.
C15_ClassifierIndependentOfBackend ==
    emo.before = emo.after

\* C11 (as claimed): once the window is built, and after every
\* change_model of the dashboard has finished, current_model and the one
\* checked model button name the backend the detector really runs
\* (detector.model_type), also when the request fell back to haar.
C11_UiShowsActualBackend ==
    (ui.up = "running" /\ "change_model" \notin Waiting(ui))
        => /\ ui.current_model = model_type
           /\ ui.haar_btn <=> (model_type = "haar")
           /\ ui.yolo_btn <=> (model_type = "yolo")
           /\ ui.mediapipe_btn <=> (model_type = "mediapipe")

\* C17 (as claimed): whatever the order of timer ticks and clicks, no
\* process_frame starts while a change of backend is in progress, i.e.
\* while a change_model of the dashboard has begun and not yet finished.
C17_SwitchAndFrameNeverOverlap ==
    (ui.last.h = "update_frame" /\ ui.last.processed)
        => "change_model" \notin ui.last.during

\* C21 (as claimed): every rectangle process_frame draws has the color of
\* the active backend, the same for every face of the frame, and that
\* color is the color of no other backend among haar, yolo and mediapipe.
C21_ColorPerBackend ==
    (ProcessedFrame /\ call.ret = "frame" /\ pre.model_type \in {"haar", "yolo", "mediapipe"})
        => \A i \in 1..Len(call.out.marks) :
              LET m == call.out.marks[i] IN
              m.k = "rect"
                 => /\ m.color = BoxColor(pre.model_type)
                    /\ \A k \in {"haar", "yolo", "mediapipe"} \ {pre.model_type} :
                          BoxColor(k) # m.color

\* C22 (as claimed): every box detect_faces_yolo returns comes from a
\* detection of class 0 whose confidence (in hundredths) is above 50.
C22_YoloConfidenceFilter ==
    (ProcessedFrame /\ call.used = "yolo" /\ ~HasEvent("locator_raised"))
        => \A i \in 1..Len(call.located) :
              \E d \in YoloCases :
                 /\ d.raw[6] = 0
                 /\ d.raw[5] > 50
                 /\ call.located[i] = <<Trunc(d.raw[1], 2), Trunc(d.raw[2], 2),
                                        Trunc(d.raw[3], 2), Trunc(d.raw[4], 2)>>

\* how many times the last call did n
Count(n) == Cardinality({i \in 1..Len(call.ev) : call.ev[i].e = n})

\* C24: detect_faces_haar runs the default pass first and once; it runs the
\* permissive pass exactly when the first pass found nothing, and once at
\* most; the faces returned are those of the first pass when it found any,
\* else those of the second.
C24_HaarRetriesOnce ==
    (ProcessedFrame /\ call.used = "haar" /\ ~HasEvent("locator_raised"))
        => /\ call.ev[1].e = "haar_pass1"
           /\ Count("haar_pass1") = 1
           /\ Count("haar_pass2") <= 1
           /\ (Count("haar_pass2") = 1) <=> (call.ev[1].i = 0)
           /\ call.ev[1].i > 0 => Len(call.located) = call.ev[1].i
           /\ call.ev[1].i = 0
                 => (call.ev[2].e = "haar_pass2" /\ Len(call.located) = call.ev[2].i)

\* C24 witness: the first pass found nothing, the second pass found a face.
C24_Witness ==
    /\ ProcessedFrame
    /\ call.used = "haar"
    /\ call.ret = "frame"
    /\ call.ev[1] = Ev("haar_pass1", 0)
    /\ call.ev[2] = Ev("haar_pass2", 1)
    /\ Len(call.located) = 1

\* C23 (as claimed): whenever process_frame runs the DNN locator on a
\* frame, a warm-up inference has been run on that locator object since its
\* weights were loaded, whichever path installed it.
C23_WarmupBeforeInference ==
    (ui.up = "running" /\ ProcessedFrame /\ call.used = "yolo") => ui.warmed

\* C25: every frame a handler of the window hands to process_frame, from a
\* timer tick, an uploaded image or the first frame stop_video shows, is at
\* most 640 wide and 480 high.
C25_FrameWithinBound ==
    (ui.last.processed /\ call.op = "process_frame")
        => (call.given.w <= max_w /\ call.given.h <= max_h)

\* C26: once stop_video has run on a loaded video, after a click on the
\* stop button or after update_frame failed to read a frame at the end of
\* the video, the frame timer is stopped, playback is paused with the play
\* button unchecked, the progress slider is at 0 and the capture is at
\* frame 0.
C26_StopRewindsAndPauses ==
    (/\ ui.up = "running"
     /\ ui.cap = "video"
     /\ ui.total_frames > 0
     /\ \/ ui.last.h = "stop_video"
        \/ ui.last.h = "update_frame" /\ ui.last.read = "no_frame")
        => /\ ~ui.timer
           /\ ui.video_paused
           /\ ~ui.play_btn
           /\ ui.slider = 0
           /\ ui.current_frame = 0
           /\ ui.pos = 0

\* the video played to its end and update_frame stopped it
C26_Witness ==
    /\ ui.up = "running"
    /\ ui.cap = "video"
    /\ ui.last.h = "update_frame"
    /\ ui.last.read = "no_frame"
    /\ ui.last.processed
    /\ call.given = VideoFrame(0)
    /\ ui.pos = 0
    /\ ~ui.timer

\* C27: no handler opens a capture, or overwrites cap, while the capture
\* that cap held before is still open: whatever the sequence of camera
\* toggles, uploads, pauses and stops, the earlier capture has been
\* released first.
C27_ReleasedBeforeOpen == ~ui.last.unreleased

\* C28: recording is on only while the camera is on: in every state of the
\* running window in which is_webcam_active is false, is_recording is
\* false, the video writer has been released and the recording timer is
\* stopped.
C28_RecordingOnlyWithCamera ==
    (ui.up = "running" /\ ~ui.is_webcam_active)
        => (~ui.is_recording /\ ~ui.video_writer /\ ~ui.record_timer)

\* C29: with a video loaded, seek_video, rewind_video and forward_video set
\* the capture to the requested position, which lies in
\* 0 .. total_frames - 1, and process_frame is given the frame at that
\* position, whether the video is playing or paused.
C29_TransportShowsFrame ==
    (/\ ui.up = "running"
     /\ ui.cap = "video"
     /\ ui.total_frames > 0
     /\ ui.last.h \in {"seek_video", "rewind_video", "forward_video"})
        => /\ ui.last.target \in 0..(ui.total_frames - 1)
           /\ ui.last.processed
           /\ call.op = "process_frame"
           /\ call.given = Resize(VideoFrame(ui.last.target))

====
